---- MODULE Spec2Model ----
(***************************************************************************)
(* Managed-root relocation of DevEnv_OneClick_Installer                    *)
(* (core/config.py ConfigManager, core/logger.py Logger,                   *)
(* core/system_config.py SystemConfig, core/history.py HistoryManager).    *)
(*                                                                         *)
(* A path is a sequence of component names.  The file system is a record   *)
(* [dirs, files]: the set of directories and a function from file paths    *)
(* to contents.  A content is a record [tag, val]: tag names the data,     *)
(* val is a sequence of paths (the root recorded by config.json, the       *)
(* record paths of installed.json).                                        *)
(***************************************************************************)
EXTENDS Naturals, Sequences, FiniteSets, TLC

VARIABLES
    fs,                   \* the file system
    reg,                  \* HKCU\Environment: variable name -> value (a path, <<>> = not set)
    pathVar,              \* HKCU\Environment PATH: the sequence of its entries
    manager_folder_path,  \* ConfigManager.manager_folder_path
    logHandle,            \* path of the log file the Logger's FileHandler holds open, <<>> = none
    logSeq,               \* number of log files created so far (timestamp of the next one)
    cwdConfig,            \* content list of os.getcwd()/config.json: <<>> or <<root>>
    rmFault,              \* environment: file path -> "none" | "locked" | "other"
    copyFault,            \* environment: file path -> "none" | "perm" | "other"
    regDown,              \* environment: the registry rejects writes
    faultsUsed,           \* number of environment faults injected so far
    pc,                   \* position inside set_manager_folder_path
    job,                  \* locals of the running set_manager_folder_path call
    result,               \* last returned (success, outcome)
    obs,                  \* observations of the running / last call
    nReloc,               \* number of calls that passed validation
    other                 \* a second thread of the process: its pc, job, result and obs

vars == <<fs, reg, pathVar, manager_folder_path, logHandle, logSeq, cwdConfig,
          rmFault, copyFault, regDown, faultsUsed, pc, job, result, obs, nReloc, other>>

-----------------------------------------------------------------------------
(* Bounds *)

MaxRelocations == 2
MaxFaulty == 1
MaxReaps == 2

-----------------------------------------------------------------------------
(* Paths *)

Home == <<"home">>
DEFAULT_MANAGER_FOLDER == "DevEnvManager"
DefaultRoot == Home \o <<DEFAULT_MANAGER_FOLDER>>
OtherRoot == <<"d", "Tools">>
ThirdRoot == <<"e", "Env">>

\* the subdirectories taken with apps first
dirs_to_migrate_apps_first == <<"apps", "downloads", "logs", "config">>

dirs_to_migrate == <<"downloads", "logs", "config", "apps">>

\* scandir order of the names used (alphabetical)
NameOrder == <<"DevEnvManager", "Env", "Tools", "apps", "bin", "config", "config.json", "d",
               "downloads", "e", "home", "install_0.log", "install_1.log", "install_2.log",
               "install_3.log", "install_4.log", "install_5.log", "install_6.log",
               "installed.json", "java.exe", "jdk", "jdk11", "logs", "maven", "new",
               "nodejs", "pkg.zip", "python", "redis">>

NameRank(n) == CHOOSE i \in 1..Len(NameOrder) : NameOrder[i] = n

Join(p, q) == p \o q

Parent(p) == SubSeq(p, 1, Len(p) - 1)

IsPrefix(p, q) == Len(p) <= Len(q) /\ SubSeq(q, 1, Len(p)) = p

Prefixes(p) == {SubSeq(p, 1, i) : i \in 1..Len(p)}

\* q with its prefix old replaced by new
Rebase(q, old, new) == new \o SubSeq(q, Len(old) + 1, Len(q))

RECURSIVE normpath(_)
normpath(p) ==
    IF p = <<>> THEN <<>>
    ELSE IF Head(p) = "." THEN normpath(Tail(p))
    ELSE <<Head(p)>> \o normpath(Tail(p))

-----------------------------------------------------------------------------
(* File system primitives (os, shutil) *)

Entries(f) == f.dirs \cup DOMAIN f.files

Exists(f, p) == p \in Entries(f)

IsDir(f, p) == p \in f.dirs

ListDir(f, p) == {q \in Entries(f) : Len(q) = Len(p) + 1 /\ Parent(q) = p}

FilesUnder(f, p) == {q \in DOMAIN f.files : IsPrefix(p, q)}

DirsUnder(f, p) == {q \in f.dirs : IsPrefix(p, q)}

Restrict(fn, S) == [x \in S |-> fn[x]]

Extend(fn, S, g) == [x \in (DOMAIN fn) \cup S |-> IF x \in S THEN g[x] ELSE fn[x]]

\* os.makedirs(p): p and every missing ancestor
MakeDirs(f, p) == [f EXCEPT !.dirs = @ \cup Prefixes(p)]

\* open(p, 'w') + write: needs the parent directory
WriteFile(f, p, c) == [f EXCEPT !.files = Extend(@, {p}, [x \in {p} |-> c])]

\* the exception a deletion of file p raises: the Logger's open handle and a
\* foreign lock give PermissionError ("locked"), "other" is any other OSError
\* (a sharing violation), "acl" a PermissionError only an elevated process
\* avoids
RmErr(e, p) ==
    IF p = e.open THEN "locked"
    ELSE IF p \in DOMAIN e.rm THEN e.rm[p]
    ELSE "none"

\* the exception reading file p for a copy raises
CopyErr(e, f, p) ==
    IF p \notin DOMAIN f.files THEN "other"
    ELSE IF p \in DOMAIN e.cp THEN e.cp[p]
    ELSE "none"

IsPermissionError(k) == k \in {"locked", "acl", "perm"}

\* os.remove(p)
Remove(e, f, p) ==
    IF p \notin DOMAIN f.files THEN [err |-> "other", fs |-> f]
    ELSE IF RmErr(e, p) # "none" THEN [err |-> RmErr(e, p), fs |-> f]
    ELSE [err |-> "none",
          fs |-> [f EXCEPT !.files = Restrict(@, (DOMAIN @) \ {p})]]

\* os.rmdir(p): only an empty directory
RmDir(f, p) ==
    IF IsDir(f, p) /\ ListDir(f, p) = {}
    THEN [err |-> "none", fs |-> [f EXCEPT !.dirs = @ \ {p}]]
    ELSE [err |-> "other", fs |-> f]

\* a is visited before b by a depth-first walk in scandir order
DfsLess(a, b) ==
    \E i \in 1..Len(a) :
        /\ i <= Len(b)
        /\ SubSeq(a, 1, i - 1) = SubSeq(b, 1, i - 1)
        /\ NameRank(a[i]) < NameRank(b[i])

\* shutil.rmtree(p, ignore_errors=False): stops at the first entry that cannot
\* be removed, what was visited before it is gone
RmTreeStrict(e, f, p) ==
    LET bad == {q \in FilesUnder(f, p) : RmErr(e, q) # "none"}
    IN  IF bad = {}
        THEN [err |-> "none",
              fs |-> [dirs |-> f.dirs \ DirsUnder(f, p),
                      files |-> Restrict(f.files, (DOMAIN f.files) \ FilesUnder(f, p))]]
        ELSE LET first == CHOOSE q \in bad : \A r \in bad \ {q} : DfsLess(q, r)
                 goneF == {q \in FilesUnder(f, p) : DfsLess(q, first)}
                 goneD == {d \in DirsUnder(f, p) : ~IsPrefix(d, first) /\ DfsLess(d, first)}
             IN  [err |-> RmErr(e, first),
                  fs |-> [dirs |-> f.dirs \ goneD,
                          files |-> Restrict(f.files, (DOMAIN f.files) \ goneF)]]

\* shutil.rmtree(p, onerror=remove_readonly) and rmtree(p, ignore_errors=True):
\* every entry that can be removed is removed, the errors are swallowed
RmTreeLenient(e, f, p) ==
    LET keepF == {q \in FilesUnder(f, p) : RmErr(e, q) # "none"}
        keepD == {d \in DirsUnder(f, p) : \E q \in keepF : IsPrefix(d, q)}
    IN  [dirs |-> (f.dirs \ DirsUnder(f, p)) \cup keepD,
         files |-> Restrict(f.files, ((DOMAIN f.files) \ FilesUnder(f, p)) \cup keepF)]

\* shutil.copy2(src, dst)
CopyFile(e, f, src, dst) ==
    IF CopyErr(e, f, src) # "none" THEN [err |-> CopyErr(e, f, src), fs |-> f]
    ELSE IF ~IsDir(f, Parent(dst)) THEN [err |-> "other", fs |-> f]
    ELSE [err |-> "none", fs |-> WriteFile(f, dst, f.files[src])]

\* shutil.copytree(src, dst): creates dst, copies what it can, raises
\* shutil.Error at the end when an entry could not be copied
CopyTree(e, f, src, dst) ==
    LET okF == {q \in FilesUnder(f, src) : CopyErr(e, f, q) = "none"}
        newD == {Rebase(d, src, dst) : d \in DirsUnder(f, src)}
        newF == {Rebase(q, src, dst) : q \in okF}
        f1 == MakeDirs(f, dst)
    IN  [err |-> IF okF = FilesUnder(f, src) THEN "none" ELSE "other",
         fs |-> [dirs |-> f1.dirs \cup newD,
                 files |-> Extend(f1.files, newF,
                                  [x \in newF |-> f.files[Rebase(x, dst, src)]])]]

-----------------------------------------------------------------------------
(* FileMigrator: ConfigManager._migrate_item *)

\* lines 356-364: the removal of the entries left in the source directory
RECURSIVE RemoveSubs(_, _, _)
RemoveSubs(e, f, S) ==
    IF S = {} THEN f
    ELSE LET sub_path == CHOOSE q \in S : TRUE
         IN  RemoveSubs(e,
                        IF IsDir(f, sub_path) THEN RmTreeStrict(e, f, sub_path).fs
                        ELSE Remove(e, f, sub_path).fs,
                        S \ {sub_path})

\* if not os.listdir(p): os.rmdir(p)
RmDirIfEmpty(f, p) == IF ListDir(f, p) = {} THEN RmDir(f, p).fs ELSE f

\* lines 350-370: remove the source directory old_item after its copy / merge
RemoveSourceDir(e, f, old_item) ==
    IF ListDir(f, old_item) = {} THEN RmDir(f, old_item).fs
    ELSE RmDirIfEmpty(RemoveSubs(e, f, ListDir(f, old_item)), old_item)

\* a copy made whether or not the destination holds the file
CopyAlways(e, f, old_item, new_item) == CopyFile(e, f, old_item, new_item)

\* lines 377-378 and 403-404: if not os.path.exists(new_item): shutil.copy2(...)
CopyIfAbsent(e, f, old_item, new_item) ==
    IF ~Exists(f, new_item) THEN CopyFile(e, f, old_item, new_item)
    ELSE [err |-> "none", fs |-> f]

\* _migrate_item(old_item, new_item, retries), at iteration attempt of its loop.
\* The value is [res, fs, cls]: the returned classification, the file system
\* afterwards and the classifications returned by this call and by every
\* nested call, as <<entry, classification>> pairs.
RECURSIVE MigrateItem(_, _, _, _, _, _)
RECURSIVE MigrateSubs(_, _, _, _, _)

\* lines 343-346: the nested calls of a merge, acc is [fs, cls]; the returned
\* classifications are dropped by the code and kept in cls for observation
MigrateSubs(e, acc, S, old_item, new_item) ==
    IF S = {} THEN acc
    ELSE LET old_sub == CHOOSE q \in S : TRUE
             Add(r) == [fs |-> r.fs, cls |-> acc.cls \cup r.cls]
         IN  MigrateSubs(e,
                 Add(MigrateItem(e, acc.fs, old_sub,
                                 Rebase(old_sub, old_item, new_item), 1, 0)),
                 S \ {old_sub}, old_item, new_item)

MigrateItem(e, f, old_item, new_item, retries, attempt) ==
    \* the classification is recorded with what the return leaves behind:
    \* <<entry, result, the source still exists, iterations of the loop made>>
    LET Ret(res, g, cls) == [res |-> res, fs |-> g,
                             cls |-> cls \cup {<<old_item, res, Exists(g, old_item),
                                                 attempt + 1>>}]
        last == ~(attempt < retries - 1)
        \* continue: the next iteration of the loop
        Retry(g) == MigrateItem(e, g, old_item, new_item, retries, attempt + 1)
        \* lines 350-373 after the merge m
        Merged(m) == Ret("success", RemoveSourceDir(e, m.fs, old_item), m.cls)
        \* lines 348-373 and 408-412 after the copytree ct
        Copied(ct) ==
            IF ct.err = "none"
            THEN Ret("success", RemoveSourceDir(e, ct.fs, old_item), {})
            ELSE IF ~last THEN Retry(ct.fs)
            ELSE Ret("failed", ct.fs, {})
        \* lines 402-407
        Recopied(again) ==
            IF again.err = "none" THEN Ret("skipped", again.fs, {})
            ELSE Ret("failed", f, {})
        \* lines 381-395 after os.remove gave rm on the file system g
        Removed(g, rm) ==
            IF rm.err = "none" THEN Ret("success", rm.fs, {})
            ELSE IF ~last THEN Retry(g)
            ELSE IF IsPermissionError(rm.err) THEN Ret("skipped", g, {})
            ELSE Ret("failed", g, {})
        \* lines 376-412 after the copy cpy of the file
        FileCopied(cpy) ==
            IF IsPermissionError(cpy.err) THEN
                \* lines 396-407
                IF ~last THEN Retry(f) ELSE Recopied(CopyIfAbsent(e, f, old_item, new_item))
            ELSE IF cpy.err = "other" THEN
                \* lines 408-412
                IF ~last THEN Retry(f) ELSE Ret("failed", f, {})
            ELSE Removed(cpy.fs, Remove(e, cpy.fs, old_item))
    IN
    IF attempt >= retries THEN Ret("failed", f, {})
    ELSE IF IsDir(f, old_item) THEN
        IF Exists(f, new_item)
        THEN \* lines 341-346: merge
             Merged(MigrateSubs(e, [fs |-> f, cls |-> {}], ListDir(f, old_item),
                                old_item, new_item))
        ELSE Copied(CopyTree(e, f, old_item, new_item))
    ELSE FileCopied(CopyIfAbsent(e, f, old_item, new_item))

-----------------------------------------------------------------------------
(* DirectoryReaper: ConfigManager._force_remove_directory *)

\* lines 455-468 and 480-490: one pass over the immediate children
RECURSIVE BruteForcePass(_, _, _)
BruteForcePass(e, f, S) ==
    IF S = {} THEN f
    ELSE LET item_path == CHOOSE q \in S : TRUE
         IN  BruteForcePass(e, RmTreeLenient(e, f, item_path), S \ {item_path})

\* a reaper without the early return on a path that does not exist
ForceRemoveDirectoryUnguarded(e, f, dir_path) ==
    [ok |-> Exists(f, dir_path) /\ ~Exists(RmTreeLenient(e, f, dir_path), dir_path),
     fs |-> RmTreeLenient(e, f, dir_path)]

\* a reaper that gives up at the first entry it cannot remove
ForceRemoveDirectoryFirstError(e, f, dir_path) ==
    [ok |-> ~Exists(RmTreeStrict(e, f, dir_path).fs, dir_path),
     fs |-> RmTreeStrict(e, f, dir_path).fs]

\* a reaper that reports success without looking at what is left
ForceRemoveDirectoryBlind(e, f, dir_path) ==
    [ok |-> TRUE, fs |-> RmTreeStrict(e, f, dir_path).fs]

\* the value is [ok, fs]: the returned boolean and the file system afterwards
ForceRemoveDirectory(e, f, dir_path) ==
    LET Gone(g) == [ok |-> ~Exists(g, dir_path), fs |-> g]
        Emptied(g) == [ok |-> TRUE, fs |-> RmDir(g, dir_path).fs]
        \* lines 492-508 after the second pass over the children
        SecondPass(t4) ==
            IF ListDir(t4, dir_path) = {} THEN Emptied(t4)
            ELSE Gone(RmTreeLenient(e, t4, dir_path))
        \* lines 473-490 after the first pass over the children
        FirstPass(t3) ==
            IF ListDir(t3, dir_path) = {} THEN Emptied(t3)
            ELSE SecondPass(BruteForcePass(e, t3, ListDir(t3, dir_path)))
        \* lines 445-468 after rmtree with onerror
        AfterOnError(t2) ==
            IF ~Exists(t2, dir_path) THEN [ok |-> TRUE, fs |-> t2]
            ELSE FirstPass(BruteForcePass(e, t2, ListDir(t2, dir_path)))
        AfterUnlink(rm) == [ok |-> rm.err = "none", fs |-> rm.fs]
        \* lines 430-447 after the plain rmtree
        AfterRmTree(t1) ==
            IF ~Exists(t1, dir_path) THEN [ok |-> TRUE, fs |-> t1]
            ELSE IF IsDir(t1, dir_path) THEN AfterOnError(RmTreeLenient(e, t1, dir_path))
            ELSE AfterUnlink(Remove(e, t1, dir_path))
    IN  IF ~Exists(f, dir_path) THEN [ok |-> TRUE, fs |-> f]
        ELSE AfterRmTree(RmTreeStrict(e, f, dir_path).fs)

-----------------------------------------------------------------------------
(* PathLedger: ConfigManager construction, Logger *)

SubDir(root, name) == Join(root, <<name>>)

get_config_file(root) == Join(root, <<"config", "config.json">>)

get_history_file(root) == Join(root, <<"config", "installed.json">>)

\* _get_or_create_manager_folder: [root, fs]
GetOrCreateManagerFolder(f, r) ==
    IF r["DEVENVMANAGER_CONFIG"] # <<>> /\ normpath(r["DEVENVMANAGER_CONFIG"]) # <<>>
    THEN [root |-> normpath(r["DEVENVMANAGER_CONFIG"]), fs |-> f]
    ELSE [root |-> DefaultRoot,
          fs |-> IF Exists(f, DefaultRoot) THEN f ELSE MakeDirs(f, DefaultRoot)]

\* _ensure_directories
RECURSIVE EnsureDirectories(_, _, _)
EnsureDirectories(f, root, i) ==
    IF i > Len(dirs_to_migrate) THEN f
    ELSE LET dir_path == SubDir(root, dirs_to_migrate[i])
         IN  EnsureDirectories(IF Exists(f, dir_path) THEN f ELSE MakeDirs(f, dir_path),
                               root, i + 1)

\* a cleanup that removes what it can of the default root whenever the current
\* root is another directory
CleanupEager(e, f, current_path) ==
    IF normpath(current_path) = normpath(DefaultRoot) THEN f
    ELSE RmTreeLenient(e, f, DefaultRoot)

\* _cleanup_old_directories_on_startup
CleanupOldDirectoriesOnStartup(e, f, current_path) ==
    LET logs_dir == SubDir(DefaultRoot, "logs")
    IN  IF ~Exists(f, get_config_file(current_path)) THEN f
        ELSE IF normpath(current_path) = normpath(DefaultRoot) THEN f
        ELSE IF ~IsDir(f, DefaultRoot) THEN f
        ELSE IF ListDir(f, DefaultRoot) = {logs_dir} /\ IsDir(f, logs_dir)
             THEN LET f1 == RmTreeLenient(e, f, logs_dir)
                  IN  IF ~Exists(f1, logs_dir) THEN RmDir(f1, DefaultRoot).fs ELSE f1
        ELSE IF ListDir(f, DefaultRoot) = {} THEN RmDir(f, DefaultRoot).fs
        ELSE f

\* ConfigManager.__init__: [root, fs]
NewConfigManager(e, f, r) ==
    LET Built(g) ==
            [root |-> g.root,
             fs |-> CleanupOldDirectoriesOnStartup(e, EnsureDirectories(g.fs, g.root, 1),
                                                   g.root)]
    IN  Built(GetOrCreateManagerFolder(f, r))

LogName(n) == <<"install_0.log", "install_1.log", "install_2.log", "install_3.log",
                "install_4.log", "install_5.log", "install_6.log">>[n + 1]

LogContent == [tag |-> "log", val |-> <<>>]

\* Logger._initialize_logger, called with every handler closed: [fs, open]
InitializeLogger(e, f, r, n) ==
    LET Open(g, log_file) == [fs |-> WriteFile(g, log_file, LogContent), open |-> log_file]
        InDir(g, logs_dir) ==
            Open(IF Exists(g, logs_dir) THEN g ELSE MakeDirs(g, logs_dir),
                 Join(logs_dir, <<LogName(n)>>))
        With(cm) == InDir(cm.fs, SubDir(cm.root, "logs"))
    IN  With(NewConfigManager([e EXCEPT !.open = <<>>], f, r))

\* _close_logger_handlers and _reinitialize_logger: close every handler, then
\* Logger._initialize_logger
ReinitializeLogger(e, f, r, n) == InitializeLogger(e, f, r, n)

-----------------------------------------------------------------------------
(* ConfigManager._migrate_all_files *)

\* a bookkeeping that counts an entry that was only copied as a failure
AccountSkippedAsFailed(acc, item, r) ==
    [fs |-> r.fs,
     failed_files |-> IF r.res \in {"failed", "skipped"} THEN acc.failed_files \cup {item}
                      ELSE acc.failed_files,
     skipped_files |-> acc.skipped_files,
     cls |-> acc.cls \cup r.cls,
     visited |-> acc.visited]

\* lines 275-279 and 289-293: the bookkeeping of the result r of entry item;
\* acc is [fs, failed_files, skipped_files, cls]
Account(acc, item, r) ==
    [fs |-> r.fs,
     failed_files |-> IF r.res = "failed" THEN acc.failed_files \cup {item}
                      ELSE acc.failed_files,
     skipped_files |-> IF r.res = "skipped" THEN acc.skipped_files \cup {item}
                       ELSE acc.skipped_files,
     cls |-> acc.cls \cup r.cls,
     visited |-> acc.visited]

\* lines 271-279: merge of the entries S of one managed subdirectory
RECURSIVE MergeTopLevel(_, _, _, _, _)
MergeTopLevel(e, acc, S, old_dir, new_dir) ==
    IF S = {} THEN acc
    ELSE LET old_item == CHOOSE q \in S : TRUE
         IN  MergeTopLevel(e,
                 Account(acc, old_item,
                         MigrateItem(e, acc.fs, old_item,
                                     Rebase(old_item, old_dir, new_dir), 3, 0)),
                 S \ {old_item}, old_dir, new_dir)

\* lines 267-293: one managed subdirectory
MigrateDir(e, acc, old_dir, new_dir) ==
    LET Merged(m) == [m EXCEPT !.fs = RmDirIfEmpty(m.fs, old_dir)]
        \* visited: the subdirectories the loop has entered, in the order of entry
        Entered(a) == [a EXCEPT !.visited = Append(@, old_dir[Len(old_dir)])]
    IN  IF ~Exists(acc.fs, old_dir) THEN acc
        ELSE IF Exists(acc.fs, new_dir)
        THEN Merged(MergeTopLevel(e, Entered(acc), ListDir(acc.fs, old_dir), old_dir, new_dir))
        ELSE Account(Entered(acc), old_dir, MigrateItem(e, acc.fs, old_dir, new_dir, 3, 0))

\* lines 263-293: the loop over dirs_to_migrate, from index i
RECURSIVE MigrateDirs(_, _, _, _, _)
MigrateDirs(e, acc, old_path, new_path, i) ==
    IF i > Len(dirs_to_migrate) THEN acc
    ELSE MigrateDirs(e,
                     MigrateDir(e, acc, SubDir(old_path, dirs_to_migrate[i]),
                                SubDir(new_path, dirs_to_migrate[i])),
                     old_path, new_path, i + 1)

\* lines 296-303: up to three calls of the reaper on the old root
RECURSIVE ReapOldRoot(_, _, _, _, _)
ReapOldRoot(e, f, old_path, attempt, calls) ==
    LET Tried(r) ==
            IF r.ok THEN [ok |-> TRUE, fs |-> r.fs, calls |-> calls + 1]
            ELSE ReapOldRoot(e, r.fs, old_path, attempt + 1, calls + 1)
    IN  IF attempt >= 3 THEN [ok |-> FALSE, fs |-> f, calls |-> calls]
        ELSE Tried(ForceRemoveDirectory(e, f, old_path))

ReapInMigration(e, f, old_path) == ReapOldRoot(e, f, old_path, 0, 0)

\* the value is [ok, fs, open, failed_files, skipped_files, cls, removed, reaps]
MigrateAllFiles(e, f, r, n, old_path, new_path) ==
    LET Result(lg, m, rp) ==
            [ok |-> m.failed_files = {},
             fs |-> rp.fs,
             open |-> lg.open,
             failed_files |-> m.failed_files,
             skipped_files |-> m.skipped_files,
             cls |-> m.cls,
             visited |-> m.visited,
             removed |-> rp.ok,
             reaps |-> rp.calls]
        Reaped(lg, e1, m) == Result(lg, m, ReapInMigration(e1, m.fs, old_path))
        Migrated(lg, e1) ==
            Reaped(lg, e1,
                   MigrateDirs(e1, [fs |-> lg.fs, failed_files |-> {}, skipped_files |-> {},
                                    cls |-> {}, visited |-> <<>>], old_path, new_path, 1))
        Logged(lg) == Migrated(lg, [e EXCEPT !.open = lg.open])
    IN  Logged(ReinitializeLogger(e, f, r, n))

-----------------------------------------------------------------------------
(* ReferenceRewriter: _update_environment_variables, _update_path_in_path_var,
   _update_history_paths *)

\* names a of which name b is a proper string prefix, as <<a, b>>
NamePrefixPairs == {<<"jdk11", "jdk">>, <<"DevEnvManager2", "DevEnvManager">>}

NameStartsWith(a, b) == a = b \/ <<a, b>> \in NamePrefixPairs

\* str.startswith on the joined strings of two normalized paths
StartsWith(p, q) ==
    \/ q = <<>>
    \/ /\ Len(q) <= Len(p)
       /\ SubSeq(p, 1, Len(q) - 1) = SubSeq(q, 1, Len(q) - 1)
       /\ NameStartsWith(p[Len(q)], q[Len(q)])

CommonLen(p, q) ==
    CHOOSE k \in 0..Len(q) :
        /\ k <= Len(p)
        /\ SubSeq(p, 1, k) = SubSeq(q, 1, k)
        /\ \A j \in (k + 1)..Len(q) : j > Len(p) \/ SubSeq(p, 1, j) # SubSeq(q, 1, j)

\* os.path.relpath(p, base)
RelPath(p, base) ==
    LET k == CommonLen(p, base)
        rel == [i \in 1..(Len(base) - k) |-> ".."] \o SubSeq(p, k + 1, Len(p))
    IN  IF rel = <<>> THEN <<".">> ELSE rel

\* env_var_map and env_folder_map, in the order of iteration
env_var_map == <<[vars |-> <<"JAVA_HOME">>, folder |-> "jdk"],
                 [vars |-> <<"NODE_HOME">>, folder |-> "nodejs"],
                 [vars |-> <<"MAVEN_HOME", "M2_HOME">>, folder |-> "maven"],
                 [vars |-> <<"REDIS_HOME">>, folder |-> "redis"],
                 [vars |-> <<"PYTHON_HOME">>, folder |-> "python"]>>

TableVars == <<"JAVA_HOME", "NODE_HOME", "MAVEN_HOME", "M2_HOME", "REDIS_HOME", "PYTHON_HOME">>

\* a table read by the first variable of each toolchain only
FolderOfFirstVar(var_name) ==
    IF \E i \in 1..Len(env_var_map) : env_var_map[i].vars[1] = var_name
    THEN (CHOOSE t \in {env_var_map[i] : i \in 1..Len(env_var_map)} :
             t.vars[1] = var_name).folder
    ELSE "none"

FolderOf(var_name) ==
    (CHOOSE t \in {env_var_map[i] : i \in 1..Len(env_var_map)} :
        \E j \in 1..Len(t.vars) : t.vars[j] = var_name).folder

RegNames == {"DEVENVMANAGER_CONFIG"} \cup {TableVars[i] : i \in 1..Len(TableVars)}

\* _update_path_in_path_var(sys_config, old_path, new_path): the entries of
\* PATH afterwards.  pv is the value split at ";", <<>> an empty entry; line
\* 749 drops the empty entries, and the list is written back (767-776) only
\* when an entry was rewritten
UpdatePathInPathVar(pv, old_path, new_path) ==
    LET paths == SelectSeq(pv, LAMBDA q : q # <<>>)
        Hit(q) == StartsWith(normpath(q), normpath(old_path))
    IN  IF \E i \in 1..Len(paths) : Hit(paths[i])
        THEN [i \in 1..Len(paths) |->
                 IF Hit(paths[i])
                 THEN Join(new_path, RelPath(normpath(paths[i]), normpath(old_path)))
                 ELSE paths[i]]
        ELSE pv

\* a registry value that is not a string (REG_DWORD, REG_BINARY):
\* winreg.QueryValueEx returns an int or bytes for it
NotAString == <<"#REG_DWORD">>

\* lines 694-732, from variable i of the table; homeOk: set_env_variable
\* succeeds (line 727), pathOk: the write of PATH at 774-775 succeeds; the call
\* of line 729 does not depend on the result of line 727.  acc is [reg, pathVar, updated, wrote, ok]; ok = FALSE: an exception
\* left the loop (os.path.normpath or str.startswith on a value that is not a
\* string raises TypeError), line 738 returns False
RECURSIVE UpdateEnvVars(_, _, _, _, _, _)
UpdateEnvVars(acc, old_path, new_path, homeOk, pathOk, i) ==
    IF i > Len(TableVars) THEN acc
    ELSE IF acc.reg[TableVars[i]] = NotAString THEN [acc EXCEPT !.ok = FALSE]
    ELSE
    LET var_name == TableVars[i]
        old_env_path == Join(old_path, <<"apps", FolderOf(var_name)>>)
        new_env_path == Join(new_path, <<"apps", FolderOf(var_name)>>)
        current_value == acc.reg[var_name]
        current_normalized == normpath(current_value)
        old_env_normalized == normpath(old_env_path)
        new_value == IF current_normalized = old_env_normalized THEN new_env_path
                     ELSE Join(new_env_path, RelPath(current_normalized, old_env_normalized))
        newPv == UpdatePathInPathVar(acc.pathVar, current_value, new_value)
    IN  IF current_value # <<>> /\ StartsWith(current_normalized, old_env_normalized)
        THEN UpdateEnvVars(
                [reg |-> IF homeOk THEN [acc.reg EXCEPT ![var_name] = new_value] ELSE acc.reg,
                 pathVar |-> IF pathOk THEN newPv ELSE acc.pathVar,
                 updated |-> IF homeOk THEN acc.updated + 1 ELSE acc.updated,
                 wrote |-> acc.wrote \/ homeOk,
                 ok |-> acc.ok],
                old_path, new_path, homeOk, pathOk, i + 1)
        ELSE UpdateEnvVars(acc, old_path, new_path, homeOk, pathOk, i + 1)

\* _update_environment_variables with the two kinds of registry write
\* succeeding or failing separately
UpdateEnvironmentVariablesWith(r, pv, old_path, new_path, homeOk, pathOk) ==
    UpdateEnvVars([reg |-> r, pathVar |-> pv, updated |-> 0, wrote |-> FALSE, ok |-> TRUE],
                  old_path, new_path, homeOk, pathOk, 1)

\* regOk: the registry accepts every write or none
UpdateEnvironmentVariables(r, pv, old_path, new_path, regOk) ==
    UpdateEnvironmentVariablesWith(r, pv, old_path, new_path, regOk, regOk)

HistoryContent(recs) == [tag |-> "history", val |-> recs]

\* _update_history_paths, called while manager_folder_path is mem_root;
\* the value is [fs, wrote]
UpdateHistoryPaths(e, f, r, mem_root, old_path, new_path) ==
    LET Hit(rp) == rp # <<>> /\ StartsWith(normpath(rp), normpath(old_path))
        target == get_history_file(mem_root)
        \* lines 790-806 on the loaded records
        Rewritten(f1, records) ==
            IF (\E i \in 1..Len(records) : Hit(records[i])) /\ IsDir(f1, Parent(target))
            THEN [fs |-> WriteFile(f1, target,
                            HistoryContent([i \in 1..Len(records) |->
                                IF Hit(records[i])
                                THEN Join(new_path, RelPath(normpath(records[i]),
                                                            normpath(old_path)))
                                ELSE records[i]])),
                  wrote |-> TRUE]
            ELSE [fs |-> f1, wrote |-> FALSE]
        \* HistoryManager._load_data
        Loaded(f1, history_file) == Rewritten(f1, f1.files[history_file].val)
        \* HistoryManager._ensure_file
        Ensured(g, history_file) ==
            Loaded(IF Exists(g, history_file) THEN g
                   ELSE WriteFile(g, history_file, HistoryContent(<<>>)),
                   history_file)
        With(cm) == Ensured(cm.fs, get_history_file(cm.root))
    IN  With(NewConfigManager(e, f, r))

-----------------------------------------------------------------------------
(* State *)

Env == [rm |-> rmFault, cp |-> copyFault, open |-> logHandle]

Data(tag) == [tag |-> tag, val |-> <<>>]

ConfigContent(root) == [tag |-> "config", val |-> <<root>>]

PkgFile(root) == Join(root, <<"downloads", "pkg.zip">>)
JdkDir(root) == Join(root, <<"apps", "jdk">>)
JavaFile(root) == Join(root, <<"apps", "jdk", "bin", "java.exe">>)

\* the files of the initial root a fault can be attached to
Faultable == {PkgFile(DefaultRoot), JavaFile(DefaultRoot)}

\* what the toolchain variables hold at the start when a JDK is installed:
\* "home": JAVA_HOME is apps/jdk; "unset": JAVA_HOME is not set; "sibling":
\* JAVA_HOME is the sibling directory apps/jdk11; "dword": NODE_HOME holds a
\* value that is not a string.  Every profile but "home" counts as a fault.
EnvProfiles == {"home", "unset", "sibling", "dword"}

MavenDir(root) == Join(root, <<"apps", "maven">>)

InitialReg(hasJdk, profile) ==
    [n \in RegNames |->
        IF ~hasJdk THEN <<>>
        ELSE IF n = "JAVA_HOME"
             THEN IF profile = "unset" THEN <<>>
                  ELSE IF profile = "sibling" THEN Join(DefaultRoot, <<"apps", "jdk11">>)
                  ELSE JdkDir(DefaultRoot)
        ELSE IF n = "NODE_HOME" /\ profile = "dword" THEN NotAString
        ELSE IF n = "MAVEN_HOME" THEN MavenDir(DefaultRoot)
        ELSE IF n = "M2_HOME" THEN Join(MavenDir(DefaultRoot), <<"bin">>)
        ELSE <<>>]

\* directories a destination may hold before the first relocation
DestShapes == {{}, {<<"downloads">>}, {<<"apps">>, <<"apps", "jdk">>},
               {<<"apps">>, <<"apps", "jdk">>, <<"apps", "jdk", "bin">>}}

\* the arguments of set_manager_folder_path
Inputs == {<<>>, <<"home", ".", "DevEnvManager">>, OtherRoot, ThirdRoot}

NoResult == [success |-> FALSE, outcome |-> "none", why |-> "none", reclaim |-> "none"]

\* files below root, by their path relative to root
Snapshot(f, root) ==
    [q \in {Rebase(x, root, <<>>) : x \in FilesUnder(f, root)} |-> f.files[Join(root, q)]]

\* the roots recorded by the config.json files, the record lists of the
\* installed.json files
ConfigRecords(f) == {f.files[q].val : q \in {x \in DOMAIN f.files : f.files[x].tag = "config"}}
HistoryRecords(f) == {f.files[q].val : q \in {x \in DOMAIN f.files : f.files[x].tag = "history"}}

\* observations of one call: the state before it (pre*), what it did, and
\* the call before it when that one failed in file migration (prev*)
NoObs == [pre |-> <<>>, old |-> <<>>, new |-> <<>>, preMem |-> <<>>, preReg |-> <<>>,
          prePath |-> <<>>, preCfg |-> {}, preHist |-> {},
          reaps |-> 0, persisted |-> FALSE,
          cls |-> {}, failed_files |-> {}, destAfterMig |-> {},
          prevFailed |-> FALSE, prevPre |-> <<>>, prevNew |-> <<>>,
          envRan |-> FALSE, envRegOk |-> FALSE, pathRan |-> FALSE,
          migRan |-> FALSE, migHandle |-> <<>>, dirOrder |-> <<>>, dirsBefore |-> {},
          steps |-> <<>>, reclaimHandle |-> <<>>, reclaimPointer |-> <<>>,
          histRan |-> FALSE, histWrote |-> FALSE, histTorn |-> FALSE,
          histOutcome |-> [raised |-> FALSE, warned |-> FALSE], histTarget |-> <<>>,
          histBefore |-> [tag |-> "absent", val |-> <<>>],
          histAfter |-> [tag |-> "absent", val |-> <<>>], tiers |-> <<>>,
          existed |-> FALSE, preFs |-> [dirs |-> {}, files |-> <<>>],
          prevDir |-> <<>>, prevOk |-> FALSE, prevExisted |-> FALSE]

\* a thread that has not called set_manager_folder_path
NoOther == [pc |-> "idle", job |-> [path |-> <<>>, old_path |-> <<>>, migrate_files |-> TRUE],
            result |-> NoResult, obs |-> NoObs, switches |-> 0]

Init ==
    \E hasPkg \in BOOLEAN, hasJdk \in BOOLEAN, shape \in DestShapes, stale \in BOOLEAN,
       profile \in EnvProfiles :
    \E rmf \in [Faultable -> {"none", "locked", "acl", "other"}],
       cpf \in [Faultable -> {"none", "perm", "other"}], down \in BOOLEAN :
        LET log0 == Join(DefaultRoot, <<"logs", LogName(0)>>)
            present == (IF hasPkg THEN {PkgFile(DefaultRoot)} ELSE {})
                       \cup (IF hasJdk THEN {JavaFile(DefaultRoot)} ELSE {})
            srcDirs == Prefixes(DefaultRoot)
                       \cup {SubDir(DefaultRoot, dirs_to_migrate[i]) : i \in 1..4}
                       \cup (IF hasJdk THEN Prefixes(Parent(JavaFile(DefaultRoot))) ELSE {})
            dstDirs == IF shape = {} THEN {<<"d">>}
                       ELSE Prefixes(OtherRoot) \cup {Join(OtherRoot, d) : d \in shape}
            base == (log0 :> LogContent)
                    @@ (get_config_file(DefaultRoot) :> ConfigContent(DefaultRoot))
                    @@ (get_history_file(DefaultRoot) :>
                            HistoryContent(IF hasJdk THEN <<JdkDir(DefaultRoot)>> ELSE <<>>))
            withPkg == IF hasPkg THEN base @@ (PkgFile(DefaultRoot) :> Data("pkg")) ELSE base
            withJdk == IF hasJdk THEN withPkg @@ (JavaFile(DefaultRoot) :> Data("java"))
                       ELSE withPkg
            withStale == IF stale THEN withJdk @@ (PkgFile(OtherRoot) :> Data("stale"))
                         ELSE withJdk
        IN  /\ stale => <<"downloads">> \in shape
            /\ profile # "home" => hasJdk
            /\ \A q \in Faultable \ present : rmf[q] = "none" /\ cpf[q] = "none"
            /\ faultsUsed = Cardinality({q \in Faultable : rmf[q] # "none"})
                              + Cardinality({q \in Faultable : cpf[q] # "none"})
                              + (IF down THEN 1 ELSE 0)
                              + (IF profile # "home" THEN 1 ELSE 0)
            /\ faultsUsed <= MaxFaulty
            /\ regDown = down
            /\ fs = [dirs |-> srcDirs \cup dstDirs, files |-> withStale]
            /\ reg = InitialReg(hasJdk, profile)
            /\ pathVar = IF hasJdk THEN <<Join(JdkDir(DefaultRoot), <<"bin">>), <<"c", "Windows">>>>
                         ELSE <<<<"c", "Windows">>>>
            /\ manager_folder_path = DefaultRoot
            /\ logHandle = log0
            /\ logSeq = 1
            /\ cwdConfig = <<>>
            /\ rmFault = rmf
            /\ copyFault = cpf
            /\ pc = "idle"
            /\ job = [path |-> <<>>, old_path |-> <<>>, migrate_files |-> TRUE]
            /\ result = NoResult
            /\ obs = NoObs
            /\ nReloc = 0
            /\ other = NoOther

-----------------------------------------------------------------------------
(* RelocationCoordinator: ConfigManager.set_manager_folder_path *)

\* the order of the steps of set_manager_folder_path after validation:
\* file migration, environment rewriting, history rewriting, persisting,
\* reclamation
StepOrderSwapped == <<"env", "history", "persist", "migrate", "reclaim">>

StepOrder == <<"migrate", "env", "history", "persist", "reclaim">>

FirstStep == StepOrder[1]

StepAfter(step) == StepOrder[(CHOOSE i \in 1..Len(StepOrder) : StepOrder[i] = step) + 1]

Return(success, outcome, why, reclaim) ==
    /\ result' = [success |-> success, outcome |-> outcome, why |-> why, reclaim |-> reclaim]
    /\ pc' = "returned"

\* lines 131-155: validation.  mkOk: os.makedirs on the destination succeeds
Validate(input, migrate_files, mkOk) ==
    /\ pc \in {"idle", "returned"}
    /\ nReloc < MaxRelocations
    /\ ~mkOk => faultsUsed < MaxFaulty /\ input # <<>> /\ ~Exists(fs, normpath(input))
    /\ faultsUsed' = IF mkOk THEN faultsUsed ELSE faultsUsed + 1
    /\ LET path == normpath(input)
           old_path == manager_folder_path
           retry == result.why = "migration"
       IN  /\ job' = [path |-> path, old_path |-> old_path, migrate_files |-> migrate_files]
           /\ obs' = [NoObs EXCEPT !.pre = Snapshot(fs, old_path),
                                   !.old = old_path, !.new = path,
                                   !.preMem = manager_folder_path,
                                   !.preReg = reg, !.prePath = pathVar,
                                   !.preCfg = ConfigRecords(fs),
                                   !.preHist = HistoryRecords(fs),
                                   !.prevFailed = retry,
                                   !.prevPre = IF retry THEN obs.pre ELSE <<>>,
                                   !.prevNew = IF retry THEN obs.new ELSE <<>>]
           /\ IF input = <<>> THEN
                  /\ Return(FALSE, "Failed", "validation", "none")
                  /\ UNCHANGED <<fs, nReloc>>
              ELSE IF normpath(path) = normpath(old_path) THEN
                  /\ Return(TRUE, "Unchanged", "none", "none")
                  /\ UNCHANGED <<fs, nReloc>>
              ELSE IF ~Exists(fs, path) /\ ~mkOk THEN
                  /\ Return(FALSE, "Failed", "validation", "none")
                  /\ UNCHANGED <<fs, nReloc>>
              ELSE
                  /\ fs' = MakeDirs(fs, path)
                  /\ pc' = FirstStep
                  /\ result' = NoResult
                  /\ nReloc' = nReloc + 1
    /\ UNCHANGED <<reg, pathVar, manager_folder_path, logHandle, logSeq, cwdConfig,
                   rmFault, copyFault, regDown, other>>

\* lines 157-164: file migration
MigrateFiles ==
    /\ pc = "migrate"
    /\ IF job.migrate_files /\ Exists(fs, job.old_path) /\ job.old_path # job.path
       THEN \E m \in {MigrateAllFiles(Env, fs, reg, logSeq, job.old_path, job.path)} :
                /\ fs' = m.fs
                /\ logHandle' = m.open
                /\ logSeq' = logSeq + 1
                /\ obs' = [obs EXCEPT !.reaps = @ + m.reaps, !.cls = m.cls,
                                      !.failed_files = m.failed_files,
                                      !.destAfterMig = Entries(m.fs),
                                      !.migRan = TRUE, !.migHandle = m.open,
                                      !.dirOrder = m.visited,
                                      !.dirsBefore = {d \in {"downloads", "logs", "config", "apps"} :
                                                         Exists(fs, SubDir(job.old_path, d))},
                                      !.steps = Append(@, "migrate")]
                /\ IF ~m.ok
                   THEN Return(FALSE, "Failed", "migration", "none")
                   ELSE pc' = StepAfter("migrate") /\ result' = result
       ELSE /\ pc' = StepAfter("migrate")
            /\ obs' = [obs EXCEPT !.steps = Append(@, "migrate")]
            /\ UNCHANGED <<fs, logHandle, logSeq, result>>
    /\ UNCHANGED <<reg, pathVar, manager_folder_path, cwdConfig, rmFault, copyFault,
                   regDown, faultsUsed, job, nReloc, other>>

\* lines 166-172: environment rewriting; a False result returns Failed
UpdateEnv ==
    /\ pc = "env"
    /\ \E u \in {UpdateEnvironmentVariables(reg, pathVar, job.old_path, job.path, ~regDown)} :
           /\ reg' = u.reg
           /\ pathVar' = u.pathVar
           /\ IF u.ok THEN pc' = StepAfter("env") /\ result' = result
              ELSE Return(FALSE, "Failed", "env", "none")
    /\ obs' = [obs EXCEPT !.envRan = TRUE, !.envRegOk = ~regDown,
                          !.steps = Append(@, "env")]
    /\ UNCHANGED <<fs, manager_folder_path, logHandle, logSeq, cwdConfig, rmFault,
                   copyFault, regDown, faultsUsed, job, nReloc, other>>

\* lines 174-180: history rewriting
\* what open(history_file, 'w') followed by an interrupted json.dump leaves:
\* a file that is not a complete JSON document
TornContent == [tag |-> "torn", val |-> <<>>]

\* the content of p, or a mark when p is not a file
ContentAt(f, p) == IF p \in DOMAIN f.files THEN f.files[p] ELSE [tag |-> "absent", val |-> <<>>]

\* self._init_logger: assigned at line 14 only
init_logger == FALSE

\* what the caller of _update_history_paths gets when the write failed or
\* not: the except clause of lines 807-809 catches every Exception, and warns
\* only through self._init_logger
HistoryOutcome(failed) == [raised |-> FALSE, warned |-> failed /\ init_logger]

\* lines 174-180.  torn: the write of lines 804-806 fails after open() has
\* truncated the file (disk full, I/O error); the exception is caught at 807
UpdateHistory(torn) ==
    /\ pc = "history"
    /\ \E h \in {UpdateHistoryPaths(Env, fs, reg, manager_folder_path, job.old_path, job.path)} :
           /\ torn => h.wrote /\ faultsUsed < MaxFaulty
           /\ fs' = IF torn
                    THEN WriteFile(h.fs, get_history_file(manager_folder_path), TornContent)
                    ELSE h.fs
           /\ obs' = [obs EXCEPT !.histRan = TRUE,
                                 !.histTorn = torn,
                                 !.steps = Append(@, "history"),
                                 !.histOutcome = HistoryOutcome(torn),
                                 !.histWrote = h.wrote,
                                 !.histTarget = get_history_file(manager_folder_path),
                                 !.histBefore = ContentAt(fs, get_history_file(manager_folder_path)),
                                 !.histAfter = ContentAt(h.fs, get_history_file(manager_folder_path))]
    /\ faultsUsed' = IF torn THEN faultsUsed + 1 ELSE faultsUsed
    /\ pc' = StepAfter("history")
    /\ UNCHANGED <<reg, pathVar, manager_folder_path, logHandle, logSeq, cwdConfig,
                   rmFault, copyFault, regDown, job, result, nReloc, other>>

\* _save_config with manager_folder_path = root.  diskOk: the write of
\* config.json succeeds; otherwise os.getcwd()/config.json is tried instead
SaveConfig(f, root, diskOk) ==
    IF diskOk
    THEN WriteFile(MakeDirs(f, Parent(get_config_file(root))), get_config_file(root),
                   ConfigContent(root))
    ELSE f

\* _ensure_directories of root; diskOk: os.makedirs succeeds
EnsureDirs(f, root, diskOk) == IF diskOk THEN EnsureDirectories(f, root, 1) ELSE f

\* SystemConfig.set_env_variable(name, value): [ok, reg]
SetEnvVariable(r, down, name, value) ==
    IF down THEN [ok |-> FALSE, reg |-> r]
    ELSE [ok |-> TRUE, reg |-> [r EXCEPT ![name] = value]]

\* lines 182-202: persisting the new root.  diskOk: the destination accepts
\* the writes of _save_config and _ensure_directories
Persist(diskOk) ==
    /\ pc = "persist"
    /\ ~diskOk => faultsUsed < MaxFaulty
    /\ faultsUsed' = IF diskOk THEN faultsUsed ELSE faultsUsed + 1
    /\ manager_folder_path' = job.path
    /\ reg' = SetEnvVariable(reg, regDown, "DEVENVMANAGER_CONFIG", job.path).reg
    /\ fs' = EnsureDirs(SaveConfig(fs, job.path, diskOk), job.path, diskOk)
    /\ cwdConfig' = <<>>
    /\ obs' = [obs EXCEPT !.persisted = TRUE, !.steps = Append(@, "persist")]
    /\ pc' = StepAfter("persist")
    /\ UNCHANGED <<pathVar, logHandle, logSeq, rmFault, copyFault, regDown, job, result,
                   nReloc, other>>

\* lines 204-214: logger reinitialization and the final call of the reaper
Reclaim ==
    /\ pc = "reclaim"
    /\ \E lg \in {ReinitializeLogger(Env, fs, reg, logSeq)} :
       \E r \in {ForceRemoveDirectory([Env EXCEPT !.open = lg.open], lg.fs, job.old_path)} :
           /\ fs' = r.fs
           /\ logHandle' = lg.open
           /\ logSeq' = logSeq + 1
           /\ obs' = [obs EXCEPT !.reaps = @ + 1, !.tiers = Append(@, "reaper"),
                                 !.reclaimHandle = lg.open,
                                 !.reclaimPointer = GetOrCreateManagerFolder(fs, reg).root]
           /\ IF r.ok THEN Return(TRUE, "Done", "none", "Removed")
              ELSE pc' = "schedule" /\ result' = result
    /\ UNCHANGED <<reg, pathVar, manager_folder_path, cwdConfig, rmFault, copyFault,
                   regDown, faultsUsed, job, nReloc, other>>

\* a registration whose failure escapes to the caller instead of being
\* returned as False
ScheduleDeleteOnRebootRaising(scheduled) ==
    /\ pc = "schedule"
    /\ obs' = [obs EXCEPT !.reaps = @ + 1, !.tiers = Append(@, "reboot")]
    /\ IF scheduled THEN Return(TRUE, "PartialSuccess", "none", "ScheduledOnReboot")
       ELSE Return(FALSE, "Failed", "reclaim", "none")
    /\ UNCHANGED <<fs, reg, pathVar, manager_folder_path, logHandle, logSeq, cwdConfig,
                   rmFault, copyFault, regDown, faultsUsed, job, nReloc, other>>

\* lines 216-220: _schedule_delete_on_reboot; scheduled: MoveFileEx result
ScheduleDeleteOnReboot(scheduled) ==
    /\ pc = "schedule"
    /\ obs' = [obs EXCEPT !.reaps = @ + 1, !.tiers = Append(@, "reboot")]
    /\ IF scheduled THEN Return(TRUE, "PartialSuccess", "none", "ScheduledOnReboot")
       ELSE pc' = "admin" /\ result' = result
    /\ UNCHANGED <<fs, reg, pathVar, manager_folder_path, logHandle, logSeq, cwdConfig,
                   rmFault, copyFault, regDown, faultsUsed, job, nReloc, other>>

\* the elevated Remove-Item -Recurse -Force: what no access right protects
ElevatedRemove(e, f, dir_path) ==
    RmTreeLenient([e EXCEPT !.rm = [q \in DOMAIN e.rm |->
                                      IF e.rm[q] = "acl" THEN "none" ELSE e.rm[q]]],
                  f, dir_path)

\* lines 222-228: _delete_with_admin; ran: the elevated helper ran in time
\* an elevated deletion without the timeout of line 548: the call polls
\* the elevated process again and again
DeleteWithAdminPolling(ran) ==
    /\ pc = "admin"
    /\ result' = [result EXCEPT !.reclaim = IF @ = "none" THEN "polling" ELSE "none"]
    /\ UNCHANGED <<fs, reg, pathVar, manager_folder_path, logHandle, logSeq, cwdConfig,
                   rmFault, copyFault, regDown, faultsUsed, pc, job, obs, nReloc, other>>

DeleteWithAdmin(ran) ==
    /\ pc = "admin"
    /\ fs' = IF ran THEN ElevatedRemove(Env, fs, job.old_path) ELSE fs
    /\ obs' = [obs EXCEPT !.reaps = @ + 1, !.tiers = Append(@, "elevated")]
    /\ IF ~Exists(fs', job.old_path)
       THEN Return(TRUE, "Done", "none", "RemovedElevated")
       ELSE Return(TRUE, "PartialSuccess", "none", "RequiresManualRemoval")
    /\ UNCHANGED <<reg, pathVar, manager_folder_path, logHandle, logSeq, cwdConfig,
                   rmFault, copyFault, regDown, faultsUsed, job, nReloc, other>>

\* environment: the locks and errors on files and on the registry go away
\* between two calls
ClearFaults ==
    /\ pc = "returned"
    /\ regDown \/ \E q \in DOMAIN rmFault : rmFault[q] # "none" \/ copyFault[q] # "none"
    /\ rmFault' = [q \in DOMAIN rmFault |-> "none"]
    /\ copyFault' = [q \in DOMAIN copyFault |-> "none"]
    /\ regDown' = FALSE
    /\ pc' = "idle"
    /\ UNCHANGED <<fs, reg, pathVar, manager_folder_path, logHandle, logSeq, cwdConfig,
                   faultsUsed, job, result, obs, nReloc, other>>

\* environment: the registry starts rejecting writes
RegistryGoesDown ==
    /\ ~regDown
    /\ faultsUsed < MaxFaulty
    /\ regDown' = TRUE
    /\ faultsUsed' = faultsUsed + 1
    /\ UNCHANGED <<fs, reg, pathVar, manager_folder_path, logHandle, logSeq, cwdConfig,
                   rmFault, copyFault, pc, job, result, obs, nReloc, other>>

Next ==
    \/ \E input \in Inputs, migrate_files \in BOOLEAN, mkOk \in BOOLEAN :
            Validate(input, migrate_files, mkOk)
    \/ MigrateFiles
    \/ UpdateEnv
    \/ \E torn \in BOOLEAN : UpdateHistory(torn)
    \/ \E diskOk \in BOOLEAN : Persist(diskOk)
    \/ Reclaim
    \/ \E scheduled \in BOOLEAN : ScheduleDeleteOnReboot(scheduled)
    \/ \E ran \in BOOLEAN : DeleteWithAdmin(ran)
    \/ ClearFaults
    \/ RegistryGoesDown

Spec == Init /\ [][Next]_vars

\* the steps of set_manager_folder_path: synchronous calls on the thread of the
\* caller, which runs until the call returns
CoordinatorStep ==
    \/ MigrateFiles
    \/ UpdateEnv
    \/ \E torn \in BOOLEAN : UpdateHistory(torn)
    \/ \E diskOk \in BOOLEAN : Persist(diskOk)
    \/ Reclaim
    \/ \E scheduled \in BOOLEAN : ScheduleDeleteOnReboot(scheduled)
    \/ \E ran \in BOOLEAN : DeleteWithAdmin(ran)

\* weak fairness of CoordinatorStep.  A step of the coordinator is enabled
\* exactly while a call is between its start and its return (each step is
\* guarded by its position alone and moves it), so WF_vars(CoordinatorStep)
\* is written with that state predicate in the place of ENABLED
CoordinatorRuns ==
    \/ []<>(pc \in {"idle", "returned"})
    \/ []<><<CoordinatorStep>>_vars

FairSpec == Init /\ [][Next]_vars /\ CoordinatorRuns

-----------------------------------------------------------------------------
(* The reaper on its own: direct calls of _force_remove_directory *)

\* the paths the reaper is called on: the drive root D:\, roots, a managed
\* subdirectory, a file, and a path that does not exist at the start
ReapTargets == {<<"d">>, OtherRoot, DefaultRoot, SubDir(DefaultRoot, "logs"),
                PkgFile(DefaultRoot), ThirdRoot}

\* _force_remove_directory(dir_path)
Reap(dir_path) ==
    /\ pc = "idle"
    /\ obs.reaps < MaxReaps
    /\ \E r \in {ForceRemoveDirectory(Env, fs, dir_path)} :
           /\ fs' = r.fs
           /\ result' = [success |-> r.ok, outcome |-> "none", why |-> "none",
                         reclaim |-> IF r.ok THEN "Removed" ELSE "none"]
    /\ obs' = [NoObs EXCEPT !.pre = Snapshot(fs, dir_path),
                            !.old = dir_path,
                            !.reaps = obs.reaps + 1,
                            !.existed = Exists(fs, dir_path),
                            !.preFs = fs,
                            !.prevDir = obs.old,
                            !.prevOk = obs.reaps > 0 /\ result.success,
                            !.prevExisted = obs.existed]
    /\ UNCHANGED <<reg, pathVar, manager_folder_path, logHandle, logSeq, cwdConfig,
                   rmFault, copyFault, regDown, faultsUsed, pc, job, nReloc, other>>

ReaperNext == \E dir_path \in ReapTargets : Reap(dir_path)

ReaperSpec == Init /\ [][ReaperNext]_vars

-----------------------------------------------------------------------------
(* set_manager_folder_path called from two threads of the process.  pc, job,
   result and obs are those of the thread that runs; other holds those of the
   thread that waits.  Nothing in lines 121-228 tests or takes a lock, so the
   scheduler may switch between any two steps. *)

InFlight(position) == position \notin {"idle", "returned"}

MaxSwitches == 2

\* the scheduler takes the processor from the running thread
Switch ==
    /\ other.switches < MaxSwitches
    /\ InFlight(pc) \/ InFlight(other.pc)
    /\ pc' = other.pc
    /\ job' = other.job
    /\ result' = other.result
    /\ obs' = other.obs
    /\ other' = [pc |-> pc, job |-> job, result |-> result, obs |-> obs,
                 switches |-> other.switches + 1]
    /\ UNCHANGED <<fs, reg, pathVar, manager_folder_path, logHandle, logSeq, cwdConfig,
                   rmFault, copyFault, regDown, faultsUsed, nReloc>>

\* both threads are given a destination that differs from the root; the
\* faults of the environment are those present at the start
TwoThreadsNext ==
    \/ \E input \in {OtherRoot, ThirdRoot} : Validate(input, TRUE, TRUE)
    \/ MigrateFiles
    \/ UpdateEnv
    \/ UpdateHistory(FALSE)
    \/ Persist(TRUE)
    \/ Reclaim
    \/ \E scheduled \in BOOLEAN : ScheduleDeleteOnReboot(scheduled)
    \/ \E ran \in BOOLEAN : DeleteWithAdmin(ran)
    \/ Switch

TwoThreadsSpec == Init /\ [][TwoThreadsNext]_vars

\* a destination inside the manager root; lines 134-155 accept it
NestedRoot == Join(DefaultRoot, <<"new">>)

\* set_manager_folder_path called with a destination nested under the root
NestedNext ==
    \/ \E migrate_files \in BOOLEAN : Validate(NestedRoot, migrate_files, TRUE)
    \/ MigrateFiles
    \/ UpdateEnv
    \/ UpdateHistory(FALSE)
    \/ Persist(TRUE)
    \/ Reclaim
    \/ \E scheduled \in BOOLEAN : ScheduleDeleteOnReboot(scheduled)
    \/ \E ran \in BOOLEAN : DeleteWithAdmin(ran)

NestedSpec == Init /\ [][NestedNext]_vars

-----------------------------------------------------------------------------
(* _update_path_in_path_var as a function of the PATH value *)

MaxPathLen == 3
MaxRecords == 2

\* entries a PATH value may hold: a directory of the toolchain, a directory
\* of a sibling of the toolchain, an unrelated directory, an empty entry
PathEntries == {Join(JdkDir(DefaultRoot), <<"bin">>),
                Join(DefaultRoot, <<"apps", "jdk11", "bin">>),
                <<"c", "Windows">>,
                <<>>}

PathValues == UNION {[1..n -> PathEntries] : n \in 0..MaxPathLen}

\* one call _update_path_in_path_var(sys_config, old_path, new_path) with PATH
\* holding pv; a rejected write is caught at line 778 and leaves PATH as it was
RewritePath(pv, old_path, new_path) ==
    /\ pc = "idle"
    /\ pathVar' = IF regDown THEN pv ELSE UpdatePathInPathVar(pv, old_path, new_path)
    /\ obs' = [NoObs EXCEPT !.prePath = pv, !.old = old_path, !.new = new_path,
                            !.pathRan = TRUE, !.envRegOk = ~regDown]
    /\ UNCHANGED <<fs, reg, manager_folder_path, logHandle, logSeq, cwdConfig,
                   rmFault, copyFault, regDown, faultsUsed, pc, job, result, nReloc, other>>

PathNext ==
    \E pv \in PathValues, r \in {OtherRoot, ThirdRoot} :
        RewritePath(pv, JdkDir(DefaultRoot), JdkDir(r))

PathSpec == Init /\ [][PathNext]_vars

\* the paths a record of the history ledger may hold: under the manager root,
\* under a sibling directory whose name starts with the root's name, elsewhere
LedgerPaths == {JdkDir(DefaultRoot),
                <<"home", "DevEnvManager2", "apps", "jdk">>,
                <<"c", "Tools", "jdk">>}

LedgerValues == UNION {[1..n -> LedgerPaths] : n \in 0..MaxRecords}

\* one call _update_history_paths(old_path, new_path) while the ledger of the
\* manager root holds the records recs
RewriteHistory(recs, old_path, new_path) ==
    /\ pc = "idle"
    /\ manager_folder_path = old_path
    /\ \E before \in {WriteFile(fs, get_history_file(old_path), HistoryContent(recs))} :
       \E h \in {UpdateHistoryPaths(Env, before, reg, manager_folder_path,
                                    old_path, new_path)} :
           /\ fs' = h.fs
           /\ obs' = [NoObs EXCEPT !.old = old_path, !.new = new_path,
                                   !.histRan = TRUE, !.histWrote = h.wrote,
                                   !.histTarget = get_history_file(old_path),
                                   !.histBefore = HistoryContent(recs),
                                   !.histAfter = ContentAt(h.fs, get_history_file(old_path))]
    /\ UNCHANGED <<reg, pathVar, manager_folder_path, logHandle, logSeq, cwdConfig,
                   rmFault, copyFault, regDown, faultsUsed, pc, job, result, nReloc, other>>

\* one call _update_environment_variables(old_path, new_path); homeOk: the
\* writes of set_env_variable succeed, pathOk: the write of PATH succeeds
RewriteEnv(old_path, new_path, homeOk, pathOk) ==
    /\ pc = "idle"
    /\ ~obs.envRan
    /\ regDown => ~homeOk /\ ~pathOk
    /\ \E u \in {UpdateEnvironmentVariablesWith(reg, pathVar, old_path, new_path,
                                                homeOk, pathOk)} :
           /\ reg' = u.reg
           /\ pathVar' = u.pathVar
    /\ obs' = [NoObs EXCEPT !.old = old_path, !.new = new_path,
                            !.preReg = reg, !.prePath = pathVar,
                            !.envRan = TRUE, !.envRegOk = homeOk, !.pathRan = pathOk]
    /\ UNCHANGED <<fs, manager_folder_path, logHandle, logSeq, cwdConfig,
                   rmFault, copyFault, regDown, faultsUsed, pc, job, result, nReloc, other>>

EnvNext ==
    \E r \in {OtherRoot, ThirdRoot}, homeOk \in BOOLEAN, pathOk \in BOOLEAN :
        RewriteEnv(DefaultRoot, r, homeOk, pathOk)

EnvSpec == Init /\ [][EnvNext]_vars

\* what the default root may hold when the program starts, as the directories
\* and files below it; absent: the default root does not exist
StartupShapes ==
    {[absent |-> TRUE, dirs |-> {}, files |-> {}],
     [absent |-> FALSE, dirs |-> {}, files |-> {}],
     [absent |-> FALSE, dirs |-> {<<"logs">>}, files |-> {}],
     [absent |-> FALSE, dirs |-> {<<"logs">>}, files |-> {<<"logs", "install_0.log">>}],
     [absent |-> FALSE, dirs |-> {<<"logs">>, <<"downloads">>},
      files |-> {<<"logs", "install_0.log">>, <<"downloads", "pkg.zip">>}],
     [absent |-> FALSE, dirs |-> {<<"logs">>}, files |-> {<<"config.json">>}],
     [absent |-> FALSE, dirs |-> {}, files |-> {<<"logs">>}],
     [absent |-> FALSE, dirs |-> {<<"apps">>}, files |-> {}]}

\* the file system holding shape under the default root and, when withConfig,
\* the config.json of the root current
ArrangedFs(shape, current, withConfig) ==
    LET rootDirs == IF shape.absent THEN {Home}
                    ELSE Prefixes(DefaultRoot) \cup {Join(DefaultRoot, d) : d \in shape.dirs}
        curDirs == Prefixes(current)
                   \cup (IF withConfig THEN {Parent(get_config_file(current))} ELSE {})
        rootFiles == [q \in {Join(DefaultRoot, x) : x \in shape.files} |-> Data("old")]
    IN  [dirs |-> rootDirs \cup curDirs,
         files |-> IF withConfig
                   THEN (get_config_file(current) :> ConfigContent(current)) @@ rootFiles
                   ELSE rootFiles]

\* ConfigManager(): the program starts while the registry names the root
\* current; locked: another process holds the old log file open
Construct(shape, current, withConfig, locked) ==
    /\ pc = "idle"
    /\ current = DefaultRoot => ~shape.absent /\ <<"logs">> \notin shape.files
    /\ \E before \in {ArrangedFs(shape, current, withConfig)},
          r0 \in {[reg EXCEPT !["DEVENVMANAGER_CONFIG"] =
                       IF current = DefaultRoot THEN <<>> ELSE current]},
          held \in {IF locked THEN Join(DefaultRoot, <<"logs", "install_0.log">>) ELSE <<>>} :
       \E cm \in {NewConfigManager([Env EXCEPT !.open = held], before, r0)} :
           /\ fs' = cm.fs
           /\ reg' = r0
           /\ manager_folder_path' = cm.root
           /\ logHandle' = held
           /\ obs' = [NoObs EXCEPT !.preFs = before, !.old = DefaultRoot, !.new = cm.root,
                                   !.existed = Exists(before, DefaultRoot)]
    /\ pc' = "started"
    /\ UNCHANGED <<pathVar, logSeq, cwdConfig, rmFault, copyFault, regDown, faultsUsed,
                   job, result, nReloc, other>>

StartupNext ==
    \E shape \in StartupShapes, current \in {DefaultRoot, OtherRoot},
       withConfig \in BOOLEAN, locked \in BOOLEAN :
        Construct(shape, current, withConfig, locked)

StartupSpec == Init /\ [][StartupNext]_vars

HistoryNext ==
    \E recs \in LedgerValues, r \in {OtherRoot, ThirdRoot} :
        RewriteHistory(recs, DefaultRoot, r)

HistorySpec == Init /\ [][HistoryNext]_vars

-----------------------------------------------------------------------------
(* Properties *)

Returned == pc = "returned"

Succeeded == Returned /\ result.outcome \in {"Done", "PartialSuccess"}

FailedInMigration == Returned /\ result.outcome = "Failed" /\ result.why = "migration"

\* the root a ConfigManager constructed now would adopt
PersistedRoot == GetOrCreateManagerFolder(fs, reg).root

IsFile(f, p) == p \in DOMAIN f.files

ClassifiedFailed == {c \in obs.cls : c[2] = "failed"}

\* C1: within a relocation no deletion attempt on the old root (reaper,
\* reboot scheduling, elevated delete) precedes the recording of the new root
\* in the ledger, so before persisting the old root is still present.
C1_NoReclaimBeforePersist ==
    /\ obs.reaps > 0 => obs.persisted
    /\ (pc \in {"migrate", "env", "history", "persist"} /\ DOMAIN obs.pre # {})
          => Exists(fs, job.old_path)

\* C2: when a relocation that migrates files ends Done or PartialSuccess,
\* every file that was under the source root before it exists under the same
\* relative path in the destination root.
C2_NoDataLoss ==
    (Succeeded /\ job.migrate_files) =>
        \A q \in DOMAIN obs.pre : IsFile(fs, Join(obs.new, q))

\* C3: if any entry at any depth was classified Failed during file migration,
\* the relocation is Failed by file migration.
C3_AnyFailedFails ==
    ClassifiedFailed # {} => result.outcome = "Failed" /\ result.why = "migration"

\* C4: a relocation that is Failed by file migration has made no deletion
\* attempt on the old root: the old root exists and so does every source file
\* that has no copy at the destination.
C4_FailedKeepsOldRoot ==
    FailedInMigration =>
        /\ obs.reaps = 0
        /\ Exists(fs, obs.old)
        /\ \A q \in DOMAIN obs.pre :
              IsFile(fs, Join(obs.new, q)) \/ IsFile(fs, Join(obs.old, q))

\* C5: when a relocation returns Failed because of file migration, the
\* in-memory root, the DEVENVMANAGER_CONFIG record, the table variables, PATH,
\* the roots recorded by config.json and the history records are what they
\* were before the call.
C5_FailedLeavesLedger ==
    FailedInMigration =>
        /\ manager_folder_path = obs.preMem
        /\ reg = obs.preReg
        /\ pathVar = obs.prePath
        /\ ConfigRecords(fs) \subseteq obs.preCfg
        /\ HistoryRecords(fs) \subseteq obs.preHist

\* a relocation failed in file migration while JAVA_HOME, a PATH entry and a
\* history record pointed under the old root
C5_Witness ==
    /\ FailedInMigration
    /\ obs.preReg["JAVA_HOME"] = JdkDir(obs.old)
    /\ \E i \in 1..Len(obs.prePath) : IsPrefix(obs.old, obs.prePath[i])
    /\ <<JdkDir(obs.old)>> \in obs.preHist

\* C6: a relocation repeated with the same destination after one that failed
\* in file migration, the faults being gone, ends Done or PartialSuccess with
\* every file that was under the source root before the first attempt present
\* at the destination.
C6_Retryable ==
    (/\ Returned
     /\ obs.prevFailed
     /\ obs.prevNew = obs.new
     /\ job.migrate_files
     /\ ~regDown
     /\ \A q \in DOMAIN rmFault : rmFault[q] = "none" /\ copyFault[q] = "none"
     /\ result.why # "validation")
    => /\ Succeeded
       /\ \A q \in DOMAIN obs.prevPre : IsFile(fs, Join(obs.new, q))

\* C7: no entry is both classified Failed and present at the destination when
\* file migration ends.
C7_FailedNotAtDestination ==
    \A c \in ClassifiedFailed : Rebase(c[1], obs.old, obs.new) \notin obs.destAfterMig

\* C8: after a relocation to a destination different from the source that
\* ends Done, the in-memory root and the root read from DEVENVMANAGER_CONFIG
\* at the next start equal the destination, and downloads, logs, config and
\* apps exist under it.
C8_DoneLedger ==
    (Returned /\ result.outcome = "Done") =>
        /\ manager_folder_path = job.path
        /\ PersistedRoot = job.path
        /\ \A i \in 1..Len(dirs_to_migrate) : IsDir(fs, SubDir(job.path, dirs_to_migrate[i]))

\* C9: the relocation never reports success while the persisted root pointer
\* designates another root than the destination or config.json was not
\* written: a failed persist gives Failed.
C9_PersistFailureFails ==
    Succeeded =>
        /\ PersistedRoot = job.path
        /\ IsFile(fs, get_config_file(job.path))
        /\ fs.files[get_config_file(job.path)] = ConfigContent(job.path)

\* C10: outside a relocation the in-memory root and the persisted record
\* agree: DEVENVMANAGER_CONFIG resolves to the in-memory root, and once a root
\* was set its config.json records it and its four subdirectories exist.
C10_SetRootAtomic ==
    pc \in {"idle", "returned", "reclaim", "schedule", "admin"} =>
        /\ PersistedRoot = manager_folder_path
        /\ obs.persisted =>
              /\ IsFile(fs, get_config_file(manager_folder_path))
              /\ fs.files[get_config_file(manager_folder_path)]
                    = ConfigContent(manager_folder_path)
              /\ \A i \in 1..Len(dirs_to_migrate) :
                    IsDir(fs, SubDir(manager_folder_path, dirs_to_migrate[i]))

\* C11: a failure of environment rewriting or of history rewriting does not
\* abort the relocation: a call that reached environment rewriting goes on to
\* persist the new root and returns with a reclamation outcome.
C11_RewriteFailureDoesNotAbort ==
    (Returned /\ obs.envRan) => (obs.persisted /\ result.reclaim # "none")

\* C12: a call whose destination is empty or equal, after normalization, to
\* the current root returns Failed, and the root, the registry, PATH and the
\* files of the root are what they were, with no deletion attempt.
C12_RejectedInValidating ==
    (Returned /\ (obs.new = <<>> \/ normpath(obs.new) = normpath(obs.old))) =>
        /\ ~result.success
        /\ result.outcome = "Failed"
        /\ manager_folder_path = obs.preMem
        /\ reg = obs.preReg
        /\ pathVar = obs.prePath
        /\ obs.reaps = 0
        /\ Snapshot(fs, obs.old) = obs.pre

\* C13: the terminal status follows the reclamation outcome: Done exactly
\* when the old root was removed (directly or by elevation) and is gone at
\* return, PartialSuccess exactly when the removal was scheduled for the next
\* reboot or is left to the user and the old root is still there; Failed is
\* returned only for a validation, file-migration or persistence failure.
C13_TerminalStatus ==
    Returned =>
        /\ result.outcome = "Done" <=>
              (result.reclaim \in {"Removed", "RemovedElevated"} /\ ~Exists(fs, obs.old))
        /\ result.outcome = "PartialSuccess" <=>
              (result.reclaim \in {"ScheduledOnReboot", "RequiresManualRemoval"}
                  /\ Exists(fs, obs.old))
        /\ result.outcome = "Failed" =>
              result.why \in {"validation", "migration", "persist"}

\* C14: reclamation escalates in order and stops at the first success: the
\* tiers tried are a prefix of reaper, reboot registration, elevated delete;
\* registration and elevation are tried only while the old root is present;
\* the outcome is Removed after the reaper alone, ScheduledOnReboot after the
\* registration, Removed by elevation or RequiresManualRemoval after the
\* elevated delete, and matches the presence of the old root.
C14_EscalationOrder ==
    /\ \E k \in 0..3 : obs.tiers = SubSeq(<<"reaper", "reboot", "elevated">>, 1, k)
    /\ pc \in {"schedule", "admin"} => Exists(fs, job.old_path)
    /\ (Returned /\ obs.tiers # <<>>) =>
          \/ Len(obs.tiers) = 1 /\ result.reclaim = "Removed" /\ ~Exists(fs, obs.old)
          \/ Len(obs.tiers) = 2 /\ result.reclaim = "ScheduledOnReboot"
                /\ Exists(fs, obs.old)
          \/ Len(obs.tiers) = 3 /\ result.reclaim = "RemovedElevated"
                /\ ~Exists(fs, obs.old)
          \/ Len(obs.tiers) = 3 /\ result.reclaim = "RequiresManualRemoval"
                /\ Exists(fs, obs.old)

\* a relocation whose old root resisted the reaper, could not be registered
\* for deletion at reboot and was removed by the elevated delete
C14_Witness ==
    /\ Returned
    /\ obs.tiers = <<"reaper", "reboot", "elevated">>
    /\ result.reclaim = "RemovedElevated"
    /\ ~Exists(fs, obs.old)

\* C15: the reaper refuses a root-like path: called on a bare drive root that
\* exists it reports failure and deletes nothing.
C15_ReaperRefusesRoots ==
    (obs.reaps > 0 /\ Len(obs.old) = 1 /\ obs.existed) =>
        /\ ~result.success
        /\ fs = obs.preFs

\* C16: the reaper called on a path that does not exist returns Removed and
\* changes nothing, so a second call on a path the first call removed returns
\* Removed again and changes nothing.
C16_ReapIdempotent ==
    /\ (obs.reaps > 0 /\ ~obs.existed) =>
          /\ result.success
          /\ result.reclaim = "Removed"
          /\ fs = obs.preFs
    /\ (obs.reaps > 1 /\ obs.prevOk /\ obs.prevDir = obs.old) =>
          /\ ~obs.existed
          /\ result.success
          /\ fs = obs.preFs

\* the second of two calls on a path that the first call found and removed
C16_Witness ==
    /\ obs.reaps = 2
    /\ obs.prevExisted
    /\ obs.prevOk
    /\ obs.prevDir = obs.old
    /\ ~obs.existed
    /\ result.success

\* C17: reclamation never raises: while a tier of reclamation runs no failure
\* has been returned, and a relocation that entered reclamation returns
\* success with one of the four reclamation outcomes (Removed directly or by
\* elevation, ScheduledOnReboot, RequiresManualRemoval), whatever could not
\* be deleted.
C17_ReclamationReturns ==
    /\ pc \in {"reclaim", "schedule", "admin"} => result = NoResult
    /\ (Returned /\ obs.tiers # <<>>) =>
          /\ result.success
          /\ result.reclaim \in {"Removed", "RemovedElevated", "ScheduledOnReboot",
                                 "RequiresManualRemoval"}
          /\ result.reclaim \in {"ScheduledOnReboot", "RequiresManualRemoval"} =>
                Exists(fs, obs.old)

\* a relocation that went through the three tiers with a file that cannot be
\* deleted still under the old root
C17_Witness ==
    /\ Returned
    /\ obs.tiers = <<"reaper", "reboot", "elevated">>
    /\ result.reclaim = "RequiresManualRemoval"
    /\ \E q \in DOMAIN rmFault : rmFault[q] # "none" /\ IsFile(fs, q)


\* table variables whose value before the call was the directory of their
\* toolchain under the old root, or a path below it
HomeVarsUnderOldRoot ==
    {v \in RegNames :
        \E i \in 1..Len(env_var_map) :
            /\ \E j \in 1..Len(env_var_map[i].vars) : env_var_map[i].vars[j] = v
            /\ obs.preReg[v] # <<>>
            /\ obs.preReg[v] # NotAString
            /\ IsPrefix(Join(obs.old, <<"apps", env_var_map[i].folder>>), obs.preReg[v])}

C19_UnrelatedUntouched ==
    obs.envRan =>
        \A v \in {TableVars[i] : i \in 1..Len(TableVars)} \ HomeVarsUnderOldRoot :
            reg[v] = obs.preReg[v]

\* the folders of the table
TableFolders == {env_var_map[i].folder : i \in 1..Len(env_var_map)}

\* C20: after a successful relocation during which the registry accepted
\* writes, every PATH entry that was equal to or nested under
\* oldRoot/apps/<folder> is the same path under newRoot, whether or not the
\* home variable of the toolchain is set or points under the old root.
C20_PathEntriesRewritten ==
    (Succeeded /\ obs.envRan /\ obs.envRegOk) =>
        /\ Len(pathVar) = Len(obs.prePath)
        /\ \A i \in 1..Len(obs.prePath) :
              (\E d \in TableFolders : IsPrefix(Join(obs.old, <<"apps", d>>), obs.prePath[i]))
                  => pathVar[i] = Rebase(obs.prePath[i], obs.old, obs.new)


\* C21: rewriting PATH changes only matching entries: the list afterwards
\* has as many entries, in the same order, as before, and every entry that
\* was not equal to or nested under the old prefix is what it was.
C21_PathFrame ==
    obs.pathRan =>
        /\ Len(pathVar) = Len(obs.prePath)
        /\ \A i \in 1..Len(obs.prePath) :
              ~IsPrefix(normpath(obs.old), normpath(obs.prePath[i]))
                  => pathVar[i] = obs.prePath[i]


\* the records of the history ledger of the old root before the call
RecordsBefore ==
    IF <<"config", "installed.json">> \in DOMAIN obs.pre
    THEN obs.pre[<<"config", "installed.json">>].val
    ELSE <<>>

\* C22: after a successful relocation every record of the history ledger
\* whose path was nested under oldRoot is found, in newRoot/config/
\* installed.json, with newRoot substituted for the oldRoot prefix.
C22_HistoryRewritten ==
    Succeeded =>
        \A i \in 1..Len(RecordsBefore) :
            IsPrefix(obs.old, RecordsBefore[i]) =>
                /\ IsFile(fs, get_history_file(obs.new))
                /\ fs.files[get_history_file(obs.new)].tag = "history"
                /\ \E j \in 1..Len(fs.files[get_history_file(obs.new)].val) :
                      fs.files[get_history_file(obs.new)].val[j]
                          = Rebase(RecordsBefore[i], obs.old, obs.new)


\* C23: history rewriting is all-or-nothing: when the history step of a
\* relocation has ended, whether or not its write failed partway, the
\* history file it writes holds the complete record set it held before the
\* step or the complete rewritten record set.
C23_HistoryAllOrNothing ==
    (pc = "persist" /\ obs.histRan) =>
        ContentAt(fs, obs.histTarget) \in {obs.histBefore, obs.histAfter}


\* C24: a failure to persist the rewritten history ledger is surfaced to the
\* caller of history rewriting: when the write failed, the call raised or
\* reported a warning.
C24_HistoryFailureSurfaced ==
    (obs.histRan /\ obs.histTorn) => (obs.histOutcome.raised \/ obs.histOutcome.warned)


\* C25: the file handles of the logger are closed before file migration and
\* stay closed while the subdirectories are migrated: the handle the logger
\* holds during the migration of the four subdirectories is not a file under
\* oldRoot/logs.
C25_LogsQuiescedInMigration ==
    obs.migRan => ~IsPrefix(SubDir(obs.old, "logs"), obs.migHandle)


\* C26: the logger is reinitialized against the logs directory of the new
\* root before the reaper is invoked: when the final deletion of the old root
\* starts, the handle of the logger is a file under newRoot/logs and not a file
\* under the old root.
C26_LoggerOnNewRootAtReclaim ==
    obs.tiers # <<>> =>
        /\ IsPrefix(SubDir(obs.new, "logs"), obs.reclaimHandle)
        /\ ~IsPrefix(obs.old, obs.reclaimHandle)


\* C27: the steps of a relocation occur in a fixed order without
\* interleaving: the subdirectories are migrated in the order downloads,
\* logs, config, apps; environment rewriting starts only after the migration
\* of all of them has completed; history rewriting follows environment
\* rewriting; persisting follows both.
C27_FixedStepOrder ==
    LET Rank(d) == CASE d = "downloads" -> 1 [] d = "logs" -> 2 [] d = "config" -> 3
                     [] d = "apps" -> 4 [] OTHER -> 0
    IN  /\ \A i \in 1..Len(obs.dirOrder) :
              /\ Rank(obs.dirOrder[i]) > 0
              /\ \A j \in 1..Len(obs.dirOrder) :
                    i < j => Rank(obs.dirOrder[i]) < Rank(obs.dirOrder[j])
        /\ Len(obs.steps) <= 4
        /\ obs.steps = SubSeq(<<"migrate", "env", "history", "persist">>, 1, Len(obs.steps))
        /\ (obs.envRan /\ obs.migRan) =>
              obs.dirsBefore \subseteq {obs.dirOrder[i] : i \in 1..Len(obs.dirOrder)}
        /\ obs.histRan => obs.envRan
        /\ obs.persisted => obs.envRan /\ obs.histRan

C27_Witness ==
    /\ Succeeded /\ obs.migRan
    /\ obs.dirOrder = <<"downloads", "logs", "config", "apps">>
    /\ obs.steps = <<"migrate", "env", "history", "persist">>
    /\ obs.cls # {}


\* C28: two invocations of the relocation never run concurrently: at most
\* one invocation of the process is between its start and its terminal state.
C28_OneInvocationAtATime == ~(InFlight(pc) /\ InFlight(other.pc))


\* C29: every relocation that begins migrating files eventually reaches a
\* terminal state: the retry loops of an entry, the repeated attempts of the
\* reaper and the elevated deletion are bounded, so no step repeats forever.
C29_Terminates == (pc = "migrate") ~> (pc = "returned")

C29_Witness ==
    /\ Returned /\ obs.migRan
    /\ obs.tiers = <<"reaper", "reboot", "elevated">>
    /\ obs.reaps > 3


\* C30: an entry is classified Moved ("success") only if its source no
\* longer exists when the classification is returned; an entry, file or
\* directory, whose source is still there is not classified Moved.
C30_MovedMeansSourceGone ==
    \A c \in obs.cls : c[2] = "success" => ~c[3]


\* the entries classified by the migration that were files before the call
ClassifiedFiles == {c \in obs.cls : Rebase(c[1], obs.old, <<>>) \in DOMAIN obs.pre}

\* C31: in the merge case every file entry, at any depth, is classified
\* CopiedOnly ("skipped") only after three attempts to delete its source.
C31_ThreeAttemptsAtAnyDepth ==
    \A c \in ClassifiedFiles : c[2] = "skipped" => c[4] = 3


\* C32: the file-migration step leaves every file that exists under the
\* destination before it in place and with the content it had, whatever the
\* source holds under the same name.
C32_DestinationFilesKept ==
    [][pc = "migrate" =>
          \A q \in FilesUnder(fs, job.path) :
              q \in DOMAIN fs'.files /\ fs'.files[q] = fs.files[q]]_vars

\* a merge has classified the source file downloads/pkg.zip while the
\* destination held a different file of that name, which is still there
C32_Witness ==
    /\ obs.migRan
    /\ <<"downloads", "pkg.zip">> \in DOMAIN obs.pre
    /\ \E c \in obs.cls : c[1] = PkgFile(obs.old)
    /\ PkgFile(obs.new) \in DOMAIN fs.files
    /\ fs.files[PkgFile(obs.new)] = Data("stale")
    /\ obs.pre[<<"downloads", "pkg.zip">>] # Data("stale")


\* the file migration of this call ran, classified no entry "failed" and at
\* least one entry "skipped"
OnlyCopiedOnly ==
    /\ obs.migRan
    /\ \A c \in obs.cls : c[2] # "failed"
    /\ \E c \in obs.cls : c[2] = "skipped"

C34_HistoryFrame ==
    obs.histRan =>
        LET before == obs.histBefore.val
            Under(rp) == IsPrefix(normpath(obs.old), normpath(rp))
        IN  /\ obs.histAfter.tag = "history"
            /\ Len(obs.histAfter.val) = Len(before)
            /\ \A i \in 1..Len(before) :
                  ~Under(before[i]) => obs.histAfter.val[i] = before[i]
            /\ (\A i \in 1..Len(before) : ~Under(before[i])) => ~obs.histWrote


\* C35: the reaper's result is truthful: it returns True only when the path
\* does not exist afterwards, hence False whenever the path still exists; and
\* every file under the path that is left is one whose removal fails, so one
\* child that cannot be deleted does not keep the others from being deleted.
C35_ReaperTruthful ==
    obs.reaps > 0 =>
        /\ result.success => ~Exists(fs, obs.old)
        /\ Exists(fs, obs.old) => ~result.success
        /\ \A q \in FilesUnder(obs.preFs, obs.old) \cup ({obs.old} \cap DOMAIN obs.preFs.files) :
              q \in DOMAIN fs.files => RmErr(Env, q) # "none"

\* the reaper returned False on a directory that holds a file it could not
\* remove, after removing another file of the directory
C35_Witness ==
    /\ obs.reaps > 0
    /\ ~result.success
    /\ Exists(fs, obs.old)
    /\ \E q \in FilesUnder(fs, obs.old) : RmErr(Env, q) # "none"
    /\ \E q \in FilesUnder(obs.preFs, obs.old) : q \notin DOMAIN fs.files


\* C36: when a relocation returns success, the destination directory exists
\* and so does the copy of every entry the migration classified as moved or
\* copied, also when the destination lies under the old root.
C36_NewRootSurvivesReclaim ==
    (Succeeded /\ obs.migRan) =>
        /\ IsDir(fs, obs.new)
        /\ \A c \in obs.cls :
              c[2] \in {"success", "skipped"} => Exists(fs, Rebase(c[1], obs.old, obs.new))


\* C37: a call with migrate_files=False deletes no file of the old root that
\* has no copy under the new root: every file the old root held before the
\* call is still there or exists under the new root.
C37_NoMigrationNoReclaim ==
    (~job.migrate_files /\ obs.old # <<>>) =>
        \A q \in DOMAIN obs.pre :
            \/ Join(obs.old, q) \in DOMAIN fs.files
            \/ Join(obs.new, q) \in DOMAIN fs.files


\* a PATH entry lies under the directory of toolchain folder in root
PathEntryUnder(root, folder) ==
    \E i \in 1..Len(pathVar) :
        pathVar[i] # <<>> /\ IsPrefix(Join(root, <<"apps", folder>>), normpath(pathVar[i]))

\* the home variable var_name points into the directory of its toolchain in root
HomeVarUnder(root, var_name) ==
    /\ reg[var_name] \notin {<<>>, NotAString}
    /\ IsPrefix(Join(root, <<"apps", FolderOf(var_name)>>), normpath(reg[var_name]))

\* C38: after environment rewriting PATH has been rewritten only if the home
\* variables were written, and for no toolchain does the home variable point
\* into one root while a PATH entry of that toolchain points into the other.
C38_ToolchainConsistent ==
    obs.envRan =>
        /\ pathVar # obs.prePath => obs.envRegOk
        /\ \A i \in 1..Len(TableVars) :
              /\ ~(HomeVarUnder(obs.old, TableVars[i])
                     /\ PathEntryUnder(obs.new, FolderOf(TableVars[i])))
              /\ ~(HomeVarUnder(obs.new, TableVars[i])
                     /\ PathEntryUnder(obs.old, FolderOf(TableVars[i])))


\* the default root was, before the construction, empty or held exactly one
\* entry, a directory named logs, and the current root is another directory
CleanupAllowed ==
    /\ normpath(obs.new) # normpath(DefaultRoot)
    /\ \/ ListDir(obs.preFs, DefaultRoot) = {}
       \/ /\ ListDir(obs.preFs, DefaultRoot) = {SubDir(DefaultRoot, "logs")}
          /\ IsDir(obs.preFs, SubDir(DefaultRoot, "logs"))

\* C39: the construction of a ConfigManager removes the default root only
\* when the current root differs from it and it was empty or held exactly one
\* entry, a directory named logs; otherwise every directory and file under the
\* default root is kept as it was.
C39_StartupCleanupScope ==
    pc = "started" =>
        /\ (obs.existed /\ ~Exists(fs, DefaultRoot)) => CleanupAllowed
        /\ ~CleanupAllowed =>
              /\ \A d \in DirsUnder(obs.preFs, DefaultRoot) : d \in fs.dirs
              /\ \A q \in FilesUnder(obs.preFs, DefaultRoot) :
                    q \in DOMAIN fs.files /\ fs.files[q] = obs.preFs.files[q]

\* a construction found the default root holding only logs with an old log
\* file, while another root is current, and removed it
C39_Witness ==
    /\ pc = "started"
    /\ CleanupAllowed
    /\ FilesUnder(obs.preFs, DefaultRoot) # {}
    /\ ~Exists(fs, DefaultRoot)

=============================================================================
